---- MODULE Spec2Model ----
(***************************************************************************)
(* Radioactive-data detection (detect_radioactivity.py) and the table-2    *)
(* driver (table2.py).                                                     *)
(*                                                                         *)
(* Four state machines share this module, one specification each:          *)
(*   SpecPvalue   cosine_pvalue(c, d)                                      *)
(*   SpecExtract  extract_features(loader, model, ...)                     *)
(*   SpecMain     main() of detect_radioactivity.py                        *)
(*   SpecStep4    step4(marking_percentages) of table2.py                  *)
(*                                                                         *)
(* Floating point values are records [nan, v]: nan marks IEEE NaN, v is    *)
(* the numerator of an exact rational.  Correlation coefficients are       *)
(* v / K, arguments of betainc are v / K^2, probabilities are              *)
(* v / PDen(d).                                                            *)
(***************************************************************************)
EXTENDS Integers, Sequences, FiniteSets, TLC

VARIABLES
    \* cosine_pvalue
    cp_pc, cp_c, cp_ty, cp_d, cp_res,
    \* extract_features
    ex_pc, ex_err, n, training, features, d_feat, offset, consumed, processed,
    \* main
    m_pc, m_ran, m_failed, m_out, m_ret, carrier, W, X, scores, p_vals, combined,
    \* step4
    s4_pc, s4_err, marking_percentages, s4_i, p_values, s4_calls

pv_vars   == <<cp_pc, cp_c, cp_ty, cp_d, cp_res>>
ex_vars   == <<ex_pc, ex_err, n, training, features, d_feat, offset, consumed, processed>>
main_vars == <<m_pc, m_ran, m_failed, m_out, m_ret, carrier, W, X, scores, p_vals, combined>>
s4_vars   == <<s4_pc, s4_err, marking_percentages, s4_i, p_values, s4_calls>>
vars      == <<pv_vars, ex_vars, main_vars, s4_vars>>

(***************************************************************************)
(* Bounds                                                                  *)
(***************************************************************************)
\* grid resolution of correlation coefficients: c = v / K
K == 4
\* how far beyond +-1 the coefficients handed to cosine_pvalue range (in 1/K)
Beyond == 2
\* largest dimensionality d handed to cosine_pvalue
MaxD == 7
\* depth at which the interpreter raises RecursionError
RecursionLimit == 3

(***************************************************************************)
(* Floats                                                                  *)
(***************************************************************************)
NaN == [nan |-> TRUE, v |-> 0]
Num(i) == [nan |-> FALSE, v |-> i]

RECURSIVE Pow(_, _)
Pow(b, e) == IF e = 0 THEN 1 ELSE b * Pow(b, e - 1)

\* -c
FNeg(c) == IF c.nan THEN NaN ELSE Num(-c.v)
\* c >= 0; every comparison with NaN is False
FGe0(c) == (~c.nan) /\ c.v >= 0
\* 1 - c**2, as a multiple of 1/K^2
OneMinusSq(c) == IF c.nan THEN NaN ELSE Num(K * K - c.v * c.v)

\* denominator of the probabilities computed for dimensionality d
PDen(d) == 2 * Pow(4, (d - 1) \div 2) * Pow(K, d - 1)

\* central binomial coefficient C(2k, k)
RECURSIVE CentralBinom(_)
CentralBinom(k) == IF k = 0 THEN 1 ELSE (CentralBinom(k - 1) * 2 * (2 * k - 1)) \div k

\* sqrt(1 - x) for x = xn / K^2, as a multiple of 1/K
SqrtOneMinus(xn) == CHOOSE r \in 0..K : r * r = K * K - xn

\* sum_{k < a} C(2k,k)/4^k x^k * sqrt(1-x), as a multiple of 1 / (4^a K^(2a))
RECURSIVE BetaSeries(_, _, _)
BetaSeries(a, xn, k) ==
    IF k = a THEN 0
    ELSE SqrtOneMinus(xn) * CentralBinom(k) * Pow(xn, k)
           * Pow(4, a - k) * Pow(K, 2 * a - 2 * k - 1)
         + BetaSeries(a, xn, k + 1)

\* scipy.special.betainc(a, 1/2, x) with a = (d - 1) / 2, x = x.v / K^2, as a
\* multiple of 1 / PDen(d): nan outside [0, 1], 0 at 0, 1 at 1 and, for an
\* integer a, the closed form 1 - sqrt(1-x) * sum_{k<a} C(2k,k) (x/4)^k.
Betainc(d, x) ==
    IF x.nan \/ x.v < 0 \/ x.v > K * K THEN NaN
    ELSE IF x.v = 0 THEN Num(0)
    ELSE IF x.v = K * K THEN Num(PDen(d))
    ELSE Num(2 * (Pow(4, (d - 1) \div 2) * Pow(K, d - 1)
                  - BetaSeries((d - 1) \div 2, x.v, 0)))

\* 0.5 * p
FHalf(p) == IF p.nan THEN NaN ELSE Num(p.v \div 2)
\* 1 - p
FOneMinus(p, d) == IF p.nan THEN NaN ELSE Num(PDen(d) - p.v)

(***************************************************************************)
(* cosine_pvalue                                                           *)
(***************************************************************************)
FloatTypes == {"float", "np.float64", "np.float32"}
ArgTypes == FloatTypes \cup {"int"}

\* assert type(c) in [float, np.float64, np.float32]
TypeOk(ty) == ty \in FloatTypes

\* if c >= 0
TakesBaseStrict(c) == (~c.nan) /\ c.v > 0
TakesBase(c) == FGe0(c)

\* return 0.5 * betainc(a, b, 1-c**2)
BaseBranch(c, d) == FHalf(Betainc(d, OneMinusSq(c)))

\* return 1 - cosine_pvalue(-c, d=d), r the value of the inner call
ReflectBranchNoFlip(r, d) == r
ReflectBranch(r, d) == FOneMinus(r, d)

\* The call cosine_pvalue(c, d) entered at stack depth `depth`:
\* status, returned value and the number of recursive calls it made.
RECURSIVE cosine_pvalue(_, _, _, _)
cosine_pvalue(c, ty, d, depth) ==
    IF ~TypeOk(ty)
    THEN [status |-> "AssertionError", value |-> NaN, calls |-> 0]
    ELSE IF TakesBase(c)
    THEN [status |-> "ok", value |-> BaseBranch(c, d), calls |-> 0]
    ELSE IF depth >= RecursionLimit
    THEN [status |-> "RecursionError", value |-> NaN, calls |-> 0]
    ELSE LET r == cosine_pvalue(FNeg(c), ty, d, depth + 1)
         IN  IF r.status = "ok"
             THEN [status |-> "ok", value |-> ReflectBranch(r.value, d),
                   calls |-> r.calls + 1]
             ELSE [r EXCEPT !.calls = @ + 1]

NoResult == [status |-> "none", value |-> NaN, calls |-> 0]

\* Coefficients on the grid: every dimensionality at 0 and +-1 and outside
\* [-1, 1]; the interior of (-1, 1) where (d - 1) / 2 is an integer.
Coefficients(d) ==
    {Num(i) : i \in {j \in (-(K + Beyond))..(K + Beyond) :
                        \/ d % 2 = 1
                        \/ j = 0
                        \/ j >= K
                        \/ j <= -K}}

PvInputs ==
    {in \in [c : [nan : BOOLEAN, v : (-(K + Beyond))..(K + Beyond)],
             ty : ArgTypes, d : 2..MaxD] :
        \/ in.c \in Coefficients(in.d)
        \/ in.c = NaN /\ in.ty \in FloatTypes}

PvIdle ==
    /\ cp_pc = "idle"
    /\ cp_c = NaN
    /\ cp_ty = "float"
    /\ cp_d = 2
    /\ cp_res = NoResult

PvInit ==
    /\ cp_pc = "ready"
    /\ \E in \in PvInputs : cp_c = in.c /\ cp_ty = in.ty /\ cp_d = in.d
    /\ cp_res = NoResult

\* one top-level call cosine_pvalue(cp_c, d=cp_d)
CallCosinePvalue ==
    /\ cp_pc = "ready"
    /\ cp_res' = cosine_pvalue(cp_c, cp_ty, cp_d, 1)
    /\ cp_pc' = IF cp_res'.status = "ok" THEN "returned" ELSE "raised"
    /\ UNCHANGED <<cp_c, cp_ty, cp_d>>
    /\ UNCHANGED <<ex_vars, main_vars, s4_vars>>

(***************************************************************************)
(* extract_features                                                        *)
(***************************************************************************)
\* largest dataset size N
MaxN == 3
\* largest batch the loader yields
MaxBatch == 2
\* most batches the loader yields
MaxBatches == 3
\* largest output width of the model
MaxWidth == 2

Min(a, b) == IF a <= b THEN a ELSE b

RECURSIVE SumSz(_)
SumSz(bs) == IF bs = <<>> THEN 0 ELSE bs[1].sz + SumSz(Tail(bs))

Batches == [sz : 0..MaxBatch, width : 1..MaxWidth]

ZeroRow == [writes |-> 0, sample |-> 0, bcast |-> FALSE]
FeaturesNone == [alloc |-> FALSE, rows |-> <<>>]

\* features = torch.zeros((n, d), dtype=torch.float32)
Zeros(nn) == [alloc |-> TRUE, rows |-> [i \in 1..nn |-> ZeroRow]]

\* number of rows of the slice features[offset:offset+sz] of an n-row tensor
SliceLen(o, sz, nn) == Min(o + sz, nn) - Min(o, nn)

\* features[offset:offset+sz] = ft: ft of shape (sz, w) is copied into a
\* slice of shape (k, d) when each dimension is equal or 1 on ft's side
Broadcastable(sz, w, k, d) == (sz = k \/ sz = 1) /\ (w = d \/ w = 1)

\* the rows after the assignment; the samples of the batch are numbered
\* o+1 .. o+sz in loader order
WriteRows(rows, o, sz, w, k, d) ==
    [i \in 1..Len(rows) |->
        IF i > o /\ i <= o + k
        THEN [writes |-> rows[i].writes + 1,
              sample |-> IF sz = k THEN i ELSE o + 1,
              bcast  |-> w # d]
        ELSE rows[i]]

\* offset += sz
NextOffsetStuck(o, sz) == o
NextOffset(o, sz) == o + sz

\* offset % (100 * sz) raises ZeroDivisionError for an empty batch
ThroughputCheckRaises(sz) == 100 * sz = 0

\* assert offset == n
AssertOffsetAtMostN(o, nn) == o <= nn
AssertOffsetEqualsN(o, nn) == o = nn

ExIdle ==
    /\ ex_pc = "idle"
    /\ ex_err = "none"
    /\ n = 0
    /\ training = FALSE
    /\ features = FeaturesNone
    /\ d_feat = 0
    /\ offset = 0
    /\ consumed = <<>>
    /\ processed = <<>>

ExInit ==
    /\ ex_pc = "entry"
    /\ ex_err = "none"
    /\ n \in 0..MaxN
    /\ training \in BOOLEAN
    /\ features = FeaturesNone
    /\ d_feat = 0
    /\ offset = 0
    /\ consumed = <<>>
    /\ processed = <<>>

ExFrame == UNCHANGED <<pv_vars, main_vars, s4_vars>>

\* assert not model.training; n = len(loader.dataset); features = None; offset = 0
ExEnter ==
    /\ ex_pc = "entry"
    /\ IF training
       THEN ex_pc' = "error" /\ ex_err' = "AssertionError"
       ELSE ex_pc' = "loop" /\ ex_err' = ex_err
    /\ UNCHANGED <<n, training, features, d_feat, offset, consumed, processed>>
    /\ ExFrame

\* one iteration of `for elements in loader` on a batch of sz images whose
\* model output has w columns
ExBatch ==
    /\ ex_pc = "loop"
    /\ Len(consumed) < MaxBatches
    /\ \E b \in Batches :
         LET d    == IF features.alloc THEN d_feat ELSE b.width
             cur  == IF features.alloc THEN features ELSE Zeros(n)
             k    == SliceLen(offset, b.sz, n)
         IN  /\ consumed' = Append(consumed, b)
             /\ d_feat' = d
             /\ IF ~Broadcastable(b.sz, b.width, k, d)
                THEN /\ features' = cur
                     /\ offset' = offset
                     /\ processed' = processed
                     /\ ex_pc' = "error"
                     /\ ex_err' = "RuntimeError"
                ELSE /\ features' = [cur EXCEPT !.rows =
                                       WriteRows(cur.rows, offset, b.sz, b.width, k, d)]
                     /\ offset' = NextOffset(offset, b.sz)
                     /\ processed' = Append(processed, b)
                     /\ IF ThroughputCheckRaises(b.sz)
                        THEN ex_pc' = "error" /\ ex_err' = "ZeroDivisionError"
                        ELSE ex_pc' = "loop" /\ ex_err' = ex_err
    /\ UNCHANGED <<n, training>>
    /\ ExFrame

\* the loader is exhausted: assert offset == n; return (features,) + tuple(all_targets)
ExFinish ==
    /\ ex_pc = "loop"
    /\ IF ~AssertOffsetEqualsN(offset, n)
       THEN ex_pc' = "error" /\ ex_err' = "AssertionError"
       ELSE IF ~features.alloc
       THEN ex_pc' = "error" /\ ex_err' = "UnboundLocalError"
       ELSE ex_pc' = "returned" /\ ex_err' = ex_err
    /\ UNCHANGED <<n, training, features, d_feat, offset, consumed, processed>>
    /\ ExFrame
(***************************************************************************)
(* main of detect_radioactivity.py                                         *)
(***************************************************************************)
\* number of classes (rows of fc.weight and of the carrier matrix)
NumClasses == 2
\* feature dimensionality (columns of the carrier matrix)
VecDim == 3
\* largest magnitude of an entry of fc.weight
MaxWeight == 2

Stages == <<"LOAD", "EXTRACT_MARKING", "EXTRACT_TARGET", "ALIGN", "PROJECT",
            "SCORE", "SIGNIFICANCE", "COMBINE">>

StageIndex(s) == CHOOSE i \in 1..Len(Stages) : Stages[i] = s

Abs(x) == IF x < 0 THEN -x ELSE x

\* vectors with one nonzero entry m at position i (all zero for m = 0)
AxisVec(i, m) == [j \in 1..VecDim |-> IF j = i THEN m ELSE 0]
\* the same vector as an array of floats
FloatVec(v) == [j \in 1..VecDim |-> Num(v[j])]

\* unit carriers, rows of carriers.pth
Carriers == {AxisVec(1, 1), AxisVec(2, -1)}
\* rows of fc.weight of the target checkpoint
WeightRows ==
    {FloatVec(AxisVec(1, m)) : m \in (-MaxWeight)..MaxWeight}
        \cup {FloatVec(AxisVec(2, MaxWeight))}
\* solutions X of the least-squares problem, as the diagonal of X: the
\* identity, a rank-deficient solution and the zero solution
AlignSolutions == {[j \in 1..VecDim |-> 1], [j \in 1..VecDim |-> IF j = 1 THEN 0 ELSE 1],
                   [j \in 1..VecDim |-> 0]}

RECURSIVE SumSq(_, _)
SumSq(v, j) == IF j = 0 THEN 0 ELSE v[j].v * v[j].v + SumSq(v, j - 1)

\* np.linalg.norm of one row
L2Norm(v) == CHOOSE r \in 0..(MaxWeight * VecDim) : r * r = SumSq(v, VecDim)

\* W = np.dot(W, X.T), one row
ProjectRow(w, x) == [j \in 1..VecDim |-> Num(w[j].v * x[j])]

\* W /= np.linalg.norm(W, axis=1, keepdims=True), one row: entries as
\* multiples of 1/K; 0/0 is nan and numpy only warns
NormalizeRow(v) ==
    LET nrm == L2Norm(v)
    IN  [j \in 1..VecDim |-> IF nrm = 0 THEN NaN ELSE Num((v[j].v * K) \div nrm)]

RECURSIVE DotFrom(_, _, _)
DotFrom(w, c, j) ==
    IF j = 0 THEN Num(0)
    ELSE LET rest == DotFrom(w, c, j - 1)
         IN  IF w[j].nan \/ rest.nan THEN NaN ELSE Num(w[j].v * c[j] + rest.v)

\* np.sum(W * carrier, axis=1), one row
ScoreRow(w, c) == DotFrom(w, c, VecDim)

\* scores.mean() is nan as soon as one score is
MeanIsNan(sc) == \E i \in 1..Len(sc) : sc[i].nan

\* int(x) raises ValueError for nan
SigmaPrintRaises(sc) == MeanIsNan(sc)

\* combine_pvalues(p_vals)[1] (Fisher): 0 when some p-value is 0, 1 when all
\* are 1, a value strictly between otherwise
CombinePvalues(ps, d) ==
    IF \E i \in 1..Len(ps) : ps[i].nan THEN "nan"
    ELSE IF \E i \in 1..Len(ps) : ps[i].v = 0 THEN "zero"
    ELSE IF \A i \in 1..Len(ps) : ps[i].v = PDen(d) THEN "one"
    ELSE "interior"

\* the stage run after stage s completed
NextStage(s) == IF StageIndex(s) = Len(Stages) THEN "done" ELSE Stages[StageIndex(s) + 1]

\* an exception raised in a stage is not caught anywhere in main
AfterFailureContinue(s) == NextStage(s)
AfterFailure(s) == "aborted"

MainIdle ==
    /\ m_pc = "idle"
    /\ m_ran = <<>>
    /\ m_failed = "none"
    /\ m_out = <<>>
    /\ m_ret = "none"
    /\ carrier = <<>>
    /\ W = <<>>
    /\ X = <<>>
    /\ scores = <<>>
    /\ p_vals = <<>>
    /\ combined = "none"

MainInit ==
    /\ m_pc = "LOAD"
    /\ m_ran = <<>>
    /\ m_failed = "none"
    /\ m_out = <<>>
    /\ m_ret = "none"
    /\ carrier = <<>>
    /\ W = <<>>
    /\ X = <<>>
    /\ scores = <<>>
    /\ p_vals = <<>>
    /\ combined = "none"

MainFrame == UNCHANGED <<pv_vars, ex_vars, s4_vars>>

\* bookkeeping of one stage: it ran, and it either completed or raised
Ran(s, ok) ==
    /\ m_ran' = Append(m_ran, s)
    /\ m_failed' = IF ok THEN m_failed ELSE s
    /\ m_pc' = IF ok THEN NextStage(s) ELSE AfterFailure(s)

\* lines 111-147: paths, logger, device, loader, carrier, marking network,
\* target checkpoint and target network
MainLoad ==
    /\ m_pc = "LOAD"
    /\ \E ok \in BOOLEAN :
         /\ Ran("LOAD", ok)
         /\ IF ok
            THEN /\ carrier' \in [1..NumClasses -> Carriers]
                 /\ W' \in [1..NumClasses -> WeightRows]
            ELSE UNCHANGED <<carrier, W>>
    /\ m_out' = Append(m_out, "cuda")
    /\ UNCHANGED <<m_ret, X, scores, p_vals, combined>>
    /\ MainFrame

\* line 151: features_marking, _ = extract_features(test_set_loader, marking_network, ...)
MainExtractMarking ==
    /\ m_pc = "EXTRACT_MARKING"
    /\ \E ok \in BOOLEAN : Ran("EXTRACT_MARKING", ok)
    /\ UNCHANGED <<m_out, m_ret, carrier, W, X, scores, p_vals, combined>>
    /\ MainFrame

\* lines 152-154: features_target, _ = extract_features(test_set_loader, target_network, ...)
MainExtractTarget ==
    /\ m_pc = "EXTRACT_TARGET"
    /\ \E ok \in BOOLEAN : Ran("EXTRACT_TARGET", ok)
    /\ UNCHANGED <<m_out, m_ret, carrier, W, X, scores, p_vals, combined>>
    /\ MainFrame

\* lines 157-158: X = np.linalg.lstsq(features_marking, features_target); print residual
MainAlign ==
    /\ m_pc = "ALIGN"
    /\ \E ok \in BOOLEAN :
         /\ Ran("ALIGN", ok)
         /\ IF ok
            THEN /\ X' \in AlignSolutions
                 /\ m_out' = Append(m_out, "residual")
            ELSE UNCHANGED <<X, m_out>>
    /\ UNCHANGED <<m_ret, carrier, W, scores, p_vals, combined>>
    /\ MainFrame

\* lines 160-162: W = fc.weight; W = np.dot(W, X.T); W /= norm(W)
MainProject ==
    /\ m_pc = "PROJECT"
    /\ \E ok \in BOOLEAN :
         /\ Ran("PROJECT", ok)
         /\ IF ok
            THEN W' = [c \in 1..NumClasses |-> NormalizeRow(ProjectRow(W[c], X))]
            ELSE UNCHANGED W
    /\ UNCHANGED <<m_out, m_ret, carrier, X, scores, p_vals, combined>>
    /\ MainFrame

\* lines 165-168: scores = np.sum(W * carrier, axis=1); print sigma; print epoch
MainScore ==
    /\ m_pc = "SCORE"
    /\ scores' = [c \in 1..NumClasses |-> ScoreRow(W[c], carrier[c])]
    /\ IF SigmaPrintRaises(scores')
       THEN /\ Ran("SCORE", FALSE)
            /\ UNCHANGED m_out
       ELSE \E ok \in BOOLEAN :
              /\ Ran("SCORE", ok)
              /\ m_out' = IF ok THEN m_out \o <<"sigma", "epoch">>
                                ELSE Append(m_out, "sigma")
    /\ UNCHANGED <<m_ret, carrier, W, X, p_vals, combined>>
    /\ MainFrame

\* line 170: p_vals = [cosine_pvalue(c, d=carrier.shape[1]) for c in list(scores)]
MainSignificance ==
    /\ m_pc = "SIGNIFICANCE"
    /\ LET rs == [c \in 1..NumClasses |->
                    cosine_pvalue(scores[c], "np.float32", VecDim, 1)]
           ok == \A c \in 1..NumClasses : rs[c].status = "ok"
       IN  /\ Ran("SIGNIFICANCE", ok)
           /\ p_vals' = IF ok THEN [c \in 1..NumClasses |-> rs[c].value] ELSE p_vals
    /\ UNCHANGED <<m_out, m_ret, carrier, W, X, scores, combined>>
    /\ MainFrame

\* lines 171-174: print log10 of the combined p-value, stop the timer; main
\* ends without a return statement
MainCombine ==
    /\ m_pc = "COMBINE"
    /\ Ran("COMBINE", TRUE)
    /\ combined' = CombinePvalues(p_vals, VecDim)
    /\ m_out' = m_out \o <<"log10p", "elapsed">>
    /\ m_ret' = "None"
    /\ UNCHANGED <<carrier, W, X, scores, p_vals>>
    /\ MainFrame

(***************************************************************************)
(* step4 of table2.py                                                      *)
(***************************************************************************)
\* most marking percentages handed to step4
MaxRuns == 2

Percentages == {1, 2, 5, 10, 50}

RECURSIVE SeqsUpTo(_, _)
SeqsUpTo(S, len) ==
    IF len = 0 THEN {<<>>}
    ELSE LET shorter == SeqsUpTo(S, len - 1)
         IN  shorter \cup {Append(q, x) : q \in shorter, x \in S}

\* def main(batch_size=256, num_workers=1)
MainParameters == <<"batch_size", "num_workers">>

\* detect_radioactivity(carrier_path, marking_network, target_network, target_checkpoint)
Step4Arguments == <<"carrier_path", "marking_network", "target_network", "target_checkpoint">>

\* The call main(*args): TypeError when more positional arguments are given
\* than main has parameters; otherwise main runs and returns None (<<>>).
CallMain(args) ==
    IF Len(args) > Len(MainParameters)
    THEN [status |-> "TypeError", ret |-> <<>>]
    ELSE [status |-> "ok", ret |-> <<>>]

\* (scores, p_vals, combined_pval) = ret
UnpacksTriple(ret) == Len(ret) = 3

S4Idle ==
    /\ s4_pc = "idle"
    /\ s4_err = "none"
    /\ marking_percentages = <<>>
    /\ s4_i = 0
    /\ p_values = <<>>
    /\ s4_calls = <<>>

S4Init ==
    /\ s4_pc = "setup"
    /\ s4_err = "none"
    /\ marking_percentages \in SeqsUpTo(Percentages, MaxRuns)
    /\ s4_i = 0
    /\ p_values = <<>>
    /\ s4_calls = <<>>

S4Frame == UNCHANGED <<pv_vars, ex_vars, main_vars>>

\* lines 118-136: logger, marking network from the step1 checkpoint, p_values.append(0)
Step4Setup ==
    /\ s4_pc = "setup"
    /\ \E ok \in BOOLEAN :
         IF ok
         THEN /\ p_values' = <<0>>
              /\ s4_i' = 1
              /\ s4_pc' = "loop"
              /\ s4_err' = s4_err
         ELSE /\ s4_pc' = "error"
              /\ s4_err' = "FileNotFoundError"
              /\ UNCHANGED <<p_values, s4_i>>
    /\ UNCHANGED <<marking_percentages, s4_calls>>
    /\ S4Frame

\* lines 139-151: one iteration of `for run in marking_percentages`
Step4Run ==
    /\ s4_pc = "loop"
    /\ s4_i <= Len(marking_percentages)
    /\ \E loaded \in BOOLEAN :
         IF ~loaded
         THEN /\ s4_pc' = "error"
              /\ s4_err' = "FileNotFoundError"
              /\ UNCHANGED <<p_values, s4_i, s4_calls>>
         ELSE LET r == CallMain(Step4Arguments)
                  call == [run |-> marking_percentages[s4_i],
                           status |-> r.status, ret |-> r.ret]
              IN  /\ s4_calls' = Append(s4_calls, call)
                  /\ IF r.status = "ok" /\ UnpacksTriple(r.ret)
                     THEN /\ p_values' = Append(p_values, r.ret[3])
                          /\ s4_i' = s4_i + 1
                          /\ s4_pc' = "loop"
                          /\ s4_err' = s4_err
                     ELSE /\ s4_pc' = "error"
                          /\ s4_err' = "TypeError"
                          /\ UNCHANGED <<p_values, s4_i>>
    /\ UNCHANGED marking_percentages
    /\ S4Frame

\* line 153: return p_values
Step4Return ==
    /\ s4_pc = "loop"
    /\ s4_i > Len(marking_percentages)
    /\ s4_pc' = "returned"
    /\ UNCHANGED <<s4_err, marking_percentages, s4_i, p_values, s4_calls>>
    /\ S4Frame

(***************************************************************************)
(* Specifications                                                          *)
(***************************************************************************)
InitPvalue == PvInit /\ ExIdle /\ MainIdle /\ S4Idle
NextPvalue == CallCosinePvalue
SpecPvalue == InitPvalue /\ [][NextPvalue]_vars

InitExtract == PvIdle /\ ExInit /\ MainIdle /\ S4Idle
NextExtract == ExEnter \/ ExBatch \/ ExFinish
SpecExtract == InitExtract /\ [][NextExtract]_vars

InitMain == PvIdle /\ ExIdle /\ MainInit /\ S4Idle
NextMain ==
    \/ MainLoad
    \/ MainExtractMarking
    \/ MainExtractTarget
    \/ MainAlign
    \/ MainProject
    \/ MainScore
    \/ MainSignificance
    \/ MainCombine
SpecMain == InitMain /\ [][NextMain]_vars

InitStep4 == PvIdle /\ ExIdle /\ MainIdle /\ S4Init
NextStep4 == Step4Setup \/ Step4Run \/ Step4Return
SpecStep4 == InitStep4 /\ [][NextStep4]_vars
(***************************************************************************)
(* Properties                                                              *)
(***************************************************************************)
Range(q) == {q[i] : i \in 1..Len(q)}

\* C1: extract_features returns a feature matrix only when the sizes of the
\* batches it consumed sum to the dataset size N; whenever the sum differs
\* from N (less or more) the call has not returned a matrix and, once it has
\* ended, it ended in an error.
C1_ReturnsOnlyOnExactCount ==
    SumSz(consumed) # n =>
        /\ ex_pc # "returned"
        /\ (ex_pc \notin {"entry", "loop"} => ex_pc = "error" /\ ex_err # "none")

\* the final assertion rejects a loader that delivered N - 1 samples
C1_Witness ==
    /\ ex_pc = "error"
    /\ ex_err = "AssertionError"
    /\ Len(consumed) >= 1
    /\ SumSz(consumed) = n - 1

\* C8 (as claimed): every batch after the first whose output width differs
\* from the width d fixed by the first batch, width 1 included, ends the
\* call in an error and writes no rows.
C8_WidthMismatchIsFatal ==
    \A i \in 2..Len(consumed) :
        consumed[i].width # d_feat =>
            /\ ex_pc = "error"
            /\ ex_err = "RuntimeError"
            /\ Len(processed) < i

\* C9 (as claimed): the offset is the number of samples processed, rows
\* [0, offset) hold those samples in loader order, each written exactly
\* once, and rows from offset on are untouched.
C9_RowsUpToOffsetWrittenOnce ==
    /\ offset = SumSz(processed)
    /\ \A i \in 1..offset :
         /\ i <= Len(features.rows)
         /\ features.rows[i].writes = 1
         /\ features.rows[i].sample = i
    /\ \A i \in 1..Len(features.rows) : i > offset => features.rows[i] = ZeroRow

\* C9 (amended): the offset is the number of samples processed, the rows
\* [0, min(offset, N)) hold the first min(offset, N) samples in loader
\* order, each written exactly once, the rows from offset on are untouched,
\* and no row is ever written twice.
C9_RowsUpToMinOffsetNWrittenOnce ==
    /\ offset = SumSz(processed)
    /\ features.alloc => Len(features.rows) = n
    /\ ~features.alloc => offset = 0
    /\ \A i \in 1..Len(features.rows) :
         IF i <= Min(offset, n)
         THEN features.rows[i].writes = 1 /\ features.rows[i].sample = i
         ELSE features.rows[i] = ZeroRow

\* three samples written by two batches and the matrix returned
C9_Witness ==
    /\ ex_pc = "returned"
    /\ Len(processed) >= 2
    /\ offset = n
    /\ \A i \in 1..n : features.rows[i].writes = 1

C4_ZeroNormStopsAtProject ==
    \A c \in 1..Len(W) :
        ("PROJECT" \in Range(m_ran) /\ W[c][1].nan) =>
            /\ m_failed = "PROJECT"
            /\ scores = <<>>

\* C2 (as claimed): every call of the detection entry point made by step4
\* completes with a triple whose third component is appended to p_values.
C2_Step4CallsReturnTriples ==
    \A i \in 1..Len(s4_calls) :
        /\ s4_calls[i].status = "ok"
        /\ Len(s4_calls[i].ret) = 3
        /\ Len(p_values) >= i + 1
        /\ p_values[i + 1] = s4_calls[i].ret[3]

\* C5 (as claimed): a call with c outside [-1, 1] raises; it never returns.
C5_OutOfRangeRaises ==
    (cp_pc # "ready" /\ ~cp_c.nan /\ Abs(cp_c.v) > K) => cp_pc = "raised"

\* C6: for c in (0, 1], cosine_pvalue(-c, d) + cosine_pvalue(c, d) = 1 and
\* cosine_pvalue(c, d) is half of betainc((d-1)/2, 1/2, 1 - c^2).
C6_Reflection ==
    (cp_pc # "ready" /\ TypeOk(cp_ty) /\ ~cp_c.nan /\ cp_c.v < 0 /\ cp_c.v >= -K) =>
        LET pos == cosine_pvalue(Num(-cp_c.v), cp_ty, cp_d, 1)
            inc == Betainc(cp_d, Num(K * K - cp_c.v * cp_c.v))
        IN  /\ cp_pc = "returned"
            /\ pos.status = "ok"
            /\ ~pos.value.nan /\ ~cp_res.value.nan /\ ~inc.nan
            /\ 2 * pos.value.v = inc.v
            /\ cp_res.value.v + pos.value.v = PDen(cp_d)

\* cosine_pvalue(-1/2, 5) has returned
C6_Witness ==
    /\ cp_pc = "returned"
    /\ cp_c = Num(-(K \div 2))
    /\ cp_d = 5
    /\ cp_res.calls = 1

C10_AtMostOneRecursiveCall ==
    (cp_pc # "ready" /\ TypeOk(cp_ty)) =>
        /\ cp_res.status = "ok"
        /\ cp_res.calls <= 1
====
